---- MODULE Spec2Model ----
(***************************************************************************)
(* A model of tabby-mcp's connection layer (src/src/tabby_mcp/cdp.py):     *)
(* TabbyConnection with its session cache _tabs and its shared browser     *)
(* handle, the resolution of a target specifier (get_tab), disconnect,     *)
(* list_targets, execute_js and the polling loop wait_for.                 *)
(*                                                                         *)
(* The debugged application is the environment: the raw /json listing of   *)
(* targets changes as targets open and close, the library's list_tab()     *)
(* hands out handle objects for the listed pages, and start(), stop() and  *)
(* Runtime.evaluate may fail.                                              *)
(***************************************************************************)
EXTENDS Integers, Sequences, FiniteSets, TLC

\* Bounds of the model.
MaxIds == 2        \* how many targets the application ever opens
MaxGen == 2        \* distinct handle objects list_tab may hand out per page
MaxBrowsers == 2   \* how many Browser objects are ever created
MaxTimeout == 3    \* the longest timeout a wait is called with, in clock units
MaxRetries == 3    \* the largest max_retries query_with_retry is called with
MaxMatches == 2    \* the most element records a reply to query carries
MaxTasks == 2      \* how many requests the event loop holds at once

\* The clock unit is 50 ms: time.sleep(0.1) of wait_for takes two units,
\* time.sleep(0.05) of wait_for_angular one.
SleepWaitFor == 2

SleepAngular == 1

\* The timeouts of the query tool's waits, 2.0 s each: the default of
\* wait_for_angular and the timeout call_tool passes to wait_for.
AngularDefaultTimeout == 40

ToolWaitForTimeout == 40

VARIABLES
    listing,    \* the application's raw /json listing: Seq of [id, type]
    nextId,     \* the next fresh target id (ids are never reused)
    browser,    \* self.browser: 0 is None, else the Browser object's number
    nBrowsers,  \* how many Browser objects were created so far
    tabs,       \* self._tabs: the dict, as its set of items [ws, tab]
    started,    \* the handle objects whose start() succeeded and that were not stopped
    epoch,      \* history since the last disconnect()
    last,       \* history: the last operation and its outcome
    page,       \* the pages' DOM: the selector's element is absent, hidden or visible
    wait,       \* the wait in progress: its arguments, its position, its clock
    ng,         \* the page's testabilities: none, all of them stable, or one unstable
    issued,     \* history: the identities the call in progress sent requests to
    retry,      \* the query_with_retry call in progress, or the last one made
    tool,       \* the call_tool request in progress, or the last one served
    loop        \* the event loop: the task it runs, and each request's position

vars ==
    <<listing, nextId, browser, nBrowsers, tabs, started, epoch, last, page, wait, ng,
      issued, retry, tool, loop>>

----------------------------------------------------------------------------
\* Values.

TargetTypes == {"page", "other"}

\* A handle object (pychrome.Tab): the page's ws_url, the Browser object that
\* created it and which of the objects for that page it is.
NoTab == [ws |-> 0, br |-> 0, gen |-> 0]

\* A target specifier: an int (an ordinal) or a str (a ws_url; 0 is a
\* string that is no page's ws_url).
IntTarget(i) == [int |-> TRUE, v |-> i]
StrTarget(s) == [int |-> FALSE, v |-> s]
NoTarget == [int |-> FALSE, v |-> -1]

Targets ==
    {IntTarget(i) : i \in -(MaxIds + 1) .. MaxIds} \cup {StrTarget(s) : s \in 0 .. MaxIds}

----------------------------------------------------------------------------
\* The session cache, a Python dict: one item per key.

CacheKeys == {e.ws : e \in tabs}

CacheValues == {e.tab : e \in tabs}

InCache(ws) == ws \in CacheKeys

CacheGet(ws) == (CHOOSE e \in tabs : e.ws = ws).tab

\* self._tabs[ws] = tab
CachePut(ws, tab) == {e \in tabs : e.ws # ws} \cup {[ws |-> ws, tab |-> tab]}

----------------------------------------------------------------------------
\* get_tab.

\* ensure_browser: the Browser object in use after the call.
ensure_browser == IF browser = 0 THEN nBrowsers + 1 ELSE browser

IsPage(t) == t.type = "page"

\* self.browser.list_tab(): a handle object for each listed page, in listing
\* order; gen says which objects the library hands out this time.
list_tab(br, gen) ==
    LET pages == SelectSeq(listing, IsPage)
    IN  [i \in 1 .. Len(pages) |-> [ws |-> pages[i].id, br |-> br, gen |-> gen]]

\* tabs[target] of a Python list of length n: the 1-based position, 0 for IndexError.
PyIndexBroken(n, i) ==
    IF i >= 0 /\ i < n THEN i + 1
    ELSE IF i < 0 /\ i > -n THEN n + i
    ELSE 0

PyIndex(n, i) ==
    IF i >= 0 /\ i < n THEN i + 1
    ELSE IF i < 0 /\ i >= -n THEN n + i + 1
    ELSE 0

\* The for loop over tabs: the position of the first handle whose
\* websocket_url equals the string, 0 when there is none.
FirstMatch(hs, s) ==
    IF \E i \in 1 .. Len(hs) : hs[i].ws = s
    THEN CHOOSE i \in 1 .. Len(hs) : hs[i].ws = s /\ \A j \in 1 .. i - 1 : hs[j].ws # s
    ELSE 0

\* Lines 49-62: the handle the specifier resolves to, or the exception raised.
Resolve(hs, target) ==
    IF Len(hs) = 0 THEN [err |-> "ConnectionError", tab |-> NoTab]
    ELSE IF target.int
    THEN LET p == PyIndex(Len(hs), target.v)
         IN  IF p = 0 THEN [err |-> "IndexError", tab |-> NoTab]
             ELSE [err |-> "none", tab |-> hs[p]]
    ELSE LET p == FirstMatch(hs, target.v)
         IN  IF p = 0 THEN [err |-> "ValueError", tab |-> NoTab]
             ELSE [err |-> "none", tab |-> hs[p]]

\* Line 66: whether the resolved handle is started and stored.
NeedsStartAlways(ws) == TRUE

NeedsStart(ws) == ~InCache(ws)

\* Line 70: what get_tab returns for the identity ws that handle resolved to.
ReturnedHandle(ws, handle) == handle

Returned(ws, handle) == CacheGet(ws)

\* get_tab with lines 67 and 68 exchanged: the handle is stored, then started.
get_tabStoresFirst(target, netOk, gen, startOk) ==
    LET br == ensure_browser
        nb == IF browser = 0 THEN nBrowsers + 1 ELSE nBrowsers
        base == [err |-> "none", tab |-> NoTab, handle |-> NoTab, ws |-> 0,
                 startCalled |-> FALSE, browser |-> br, nBrowsers |-> nb, tabs |-> tabs, started |-> started]
        r == Resolve(list_tab(br, gen), target)
    IN  IF ~netOk THEN [base EXCEPT !.err = "TransportError"]
        ELSE IF r.err # "none" THEN [base EXCEPT !.err = r.err]
        ELSE IF NeedsStart(r.tab.ws)
        THEN IF startOk
             THEN [base EXCEPT !.tab = r.tab, !.handle = r.tab, !.ws = r.tab.ws,
                               !.startCalled = TRUE,
                               !.tabs = CachePut(r.tab.ws, r.tab),
                               !.started = started \cup {r.tab}]
             ELSE [base EXCEPT !.err = "StartError", !.handle = r.tab, !.ws = r.tab.ws,
                               !.startCalled = TRUE,
                               !.tabs = CachePut(r.tab.ws, r.tab)]
        ELSE [base EXCEPT !.tab = Returned(r.tab.ws, r.tab), !.handle = r.tab,
                          !.ws = r.tab.ws]

\* get_tab(target), with the environment's part as inputs: netOk (list_tab's
\* HTTP request succeeds), gen (the handle objects handed out) and startOk
\* (start() of a new handle succeeds). The result names the exception raised
\* ("none": it returned tab) and the state the call leaves.
get_tab(target, netOk, gen, startOk) ==
    LET br == ensure_browser
        nb == IF browser = 0 THEN nBrowsers + 1 ELSE nBrowsers
        base == [err |-> "none", tab |-> NoTab, handle |-> NoTab, ws |-> 0,
                 startCalled |-> FALSE, browser |-> br, nBrowsers |-> nb, tabs |-> tabs, started |-> started]
        r == Resolve(list_tab(br, gen), target)
    IN  IF ~netOk THEN [base EXCEPT !.err = "TransportError"]
        ELSE IF r.err # "none" THEN [base EXCEPT !.err = r.err]
        ELSE IF NeedsStart(r.tab.ws)
        THEN IF startOk
             THEN [base EXCEPT !.tab = r.tab, !.handle = r.tab, !.ws = r.tab.ws,
                               !.startCalled = TRUE,
                               !.tabs = CachePut(r.tab.ws, r.tab),
                               !.started = started \cup {r.tab}]
             ELSE [base EXCEPT !.err = "StartError", !.handle = r.tab, !.ws = r.tab.ws,
                               !.startCalled = TRUE]
        ELSE [base EXCEPT !.tab = Returned(r.tab.ws, r.tab), !.handle = r.tab,
                          !.ws = r.tab.ws]

----------------------------------------------------------------------------
\* execute_js.

\* A key a dict does not have.
Missing == "<missing>"

\* dict.get(key, default)
Get(field, default) == IF field = Missing THEN default ELSE field

\* Python values, as their repr: None, booleans, numbers and lists.
Truthy(v) == v \notin {"None", "False", "0", "''", "[]"}

\* What Runtime.evaluate returns, as far as execute_js reads it: whether the
\* dict has exceptionDetails, its text and its exception.description (Missing
\* when it has no exception or that has no description), and result.value
\* (Missing when it has no result or that has no value).
NoReply == [exc |-> FALSE, text |-> Missing, description |-> Missing, value |-> Missing]

Replies ==
    {[NoReply EXCEPT !.exc = TRUE, !.text = t, !.description = d] :
         t \in {Missing, "Uncaught"}, d \in {Missing, "", "Error: x"}}
    \cup {[NoReply EXCEPT !.value = v] : v \in {Missing, "None", "2", "False"}}

\* Line 95: the expression in an immediately invoked async function.
Wrap(expression) == "(async () => { " \o expression \o " })()"

\* Lines 94-101: the request execute_js sends.
NoRequest ==
    [sent |-> FALSE, expression |-> "", returnByValue |-> FALSE, awaitPromise |-> FALSE]

EvaluateRequestAwaits(expression, wrap) ==
    [sent |-> TRUE, expression |-> IF wrap THEN Wrap(expression) ELSE expression,
     returnByValue |-> TRUE, awaitPromise |-> TRUE]

EvaluateRequest(expression, wrap) ==
    [sent |-> TRUE, expression |-> IF wrap THEN Wrap(expression) ELSE expression,
     returnByValue |-> TRUE, awaitPromise |-> wrap]

\* Lines 103-107: the message of the RuntimeError.
ErrorMessageAlwaysJoined(reply) ==
    Get(reply.text, "Unknown error") \o ": " \o Get(reply.description, "")

ErrorMessage(reply) ==
    LET error_text == Get(reply.text, "Unknown error")
        description == Get(reply.description, "")
    IN  IF description # "" THEN error_text \o ": " \o description ELSE error_text

\* Line 108: result.get("result", {}).get("value")
ReturnValue(reply) == Get(reply.value, "None")

\* What Runtime.evaluate does: it raises (the transport failed) or returns reply.
EvalOutcomes ==
    {[ok |-> FALSE, reply |-> NoReply]} \cup {[ok |-> TRUE, reply |-> y] : y \in Replies}

\* execute_js(expression, target, wrap), with the environment's part as inputs:
\* env for get_tab and ev for Runtime.evaluate. r is what get_tab did; the
\* result adds the exception raised, its message, the value returned and the
\* request sent.
ExecResult(r, err, msg, value, request, reply) ==
    [err |-> err, msg |-> msg, value |-> value, request |-> request, reply |-> reply,
     tab |-> r.tab, handle |-> r.handle, ws |-> r.ws, startCalled |-> r.startCalled,
     browser |-> r.browser, nBrowsers |-> r.nBrowsers, tabs |-> r.tabs,
     started |-> r.started]

execute_js(expression, target, wrap, env, ev) ==
    LET r == get_tab(target, env.netOk, env.gen, env.startOk)
        request == EvaluateRequest(expression, wrap)
    IN  IF r.err # "none" THEN ExecResult(r, r.err, "", "None", NoRequest, NoReply)
        ELSE IF ~ev.ok THEN ExecResult(r, "TransportError", "", "None", request, NoReply)
        ELSE IF ev.reply.exc
        THEN ExecResult(r, "RuntimeError", ErrorMessage(ev.reply), "None", request, ev.reply)
        ELSE ExecResult(r, "none", "", ReturnValue(ev.reply), request, ev.reply)

----------------------------------------------------------------------------
\* wait_for.

\* repr(selector) of the selector the waits are called with.
SelectorRepr == "'#x'"

\* Lines 214-223: the script of one poll.
WaitForScript(visible) ==
    IF visible
    THEN "\n                (() => {"
         \o "\n                    const el = document.querySelector(" \o SelectorRepr \o ");"
         \o "\n                    if (!el) return false;"
         \o "\n                    const rect = el.getBoundingClientRect();"
         \o "\n                    return rect.width > 0 && rect.height > 0;"
         \o "\n                })()"
         \o "\n                "
    ELSE "document.querySelector(" \o SelectorRepr \o ") !== null"

\* Lines 174-183: the script of click.
ClickScript(index) ==
    "\n        (() => {"
    \o "\n            const elements = document.querySelectorAll(" \o SelectorRepr \o ");"
    \o "\n            if (elements[" \o ToString(index) \o "]) {"
    \o "\n                elements[" \o ToString(index) \o "].click();"
    \o "\n                return true;"
    \o "\n            }"
    \o "\n            return false;"
    \o "\n        })()"
    \o "\n        "

\* Lines 188-193: the script of get_text.
GetTextScript ==
    "\n        (() => {"
    \o "\n            const el = document.querySelector(" \o SelectorRepr \o ");"
    \o "\n            return el ? el.textContent : null;"
    \o "\n        })()"
    \o "\n        "

\* The index argument of click.
Indexes == {0, 1}

\* Lines 235-241: the script of one poll of wait_for_angular.
AngularScript ==
    "\n        (() => {"
    \o "\n            const ng = window.getAllAngularTestabilities?.();"
    \o "\n            if (!ng || ng.length === 0) return true;"
    \o "\n            return ng.every(t => t.isStable());"
    \o "\n        })()"
    \o "\n        "

\* Lines 119-148: the script of query, in its parts.
QueryHead ==
    "\n        (() => {"
    \o "\n            const elements = document.querySelectorAll("

QueryElement ==
    ");"
    \o "\n            return Array.from(elements).map((el, i) => {"
    \o "\n                const attrs = {};"
    \o "\n                for (const attr of el.attributes) {"
    \o "\n                    attrs[attr.name] = attr.value;"
    \o "\n                }"
    \o "\n                const result = {"
    \o "\n                    index: i,"
    \o "\n                    tagName: el.tagName.toLowerCase(),"
    \o "\n                    id: el.id || null,"
    \o "\n                    className: el.className || null,"
    \o "\n                    attributes: attrs,"
    \o "\n                    childCount: el.children.length"
    \o "\n                };"
    \o "\n                "

\* Lines 135-141 and 142-144: what include_children and include_text add.
QueryChildren ==
    "\n                result.children = Array.from(el.children).slice(0, 10).map(c => ({"
    \o "\n                    tagName: c.tagName.toLowerCase(),"
    \o "\n                    id: c.id || null,"
    \o "\n                    className: c.className || null"
    \o "\n                }));"
    \o "\n                "

QueryText ==
    "\n                result.textContent = el.textContent?.substring(0, 200) || null;"
    \o "\n                "

QueryTail ==
    "\n                return result;"
    \o "\n            });"
    \o "\n        })()"
    \o "\n        "

QueryScript(include_children, include_text) ==
    QueryHead \o SelectorRepr \o QueryElement
    \o (IF include_children THEN QueryChildren ELSE "")
    \o "\n                "
    \o (IF include_text THEN QueryText ELSE "")
    \o QueryTail

\* The list of n element records the script of query computes, as Python reads
\* the JSON: each record has its index, and the keys the flags add.
ElementRecord(i, include_children, include_text) ==
    "{'index': " \o ToString(i)
    \o (IF include_children THEN ", 'children': [...]" ELSE "")
    \o (IF include_text THEN ", 'textContent': ..." ELSE "") \o "}"

RECURSIVE ElementsFrom(_, _, _, _)
ElementsFrom(i, n, include_children, include_text) ==
    IF i >= n THEN ""
    ELSE (IF i > 0 THEN ", " ELSE "")
         \o ElementRecord(i, include_children, include_text)
         \o ElementsFrom(i + 1, n, include_children, include_text)

ElementList(n, include_children, include_text) ==
    "[" \o ElementsFrom(0, n, include_children, include_text) \o "]"

\* How many elements of a page whose DOM is dom the selector matches.
Matches(dom) == IF dom = "absent" THEN 0 ELSE 1

IsQueryScript(expression) ==
    \E c, t \in BOOLEAN : expression = QueryScript(c, t)

QueryValue(expression, dom) ==
    LET f == CHOOSE f \in BOOLEAN \X BOOLEAN : expression = QueryScript(f[1], f[2])
    IN  ElementList(Matches(dom), f[1], f[2])

\* The remote side. The value of the scripts above as expressions, in a page
\* whose DOM is dom and whose testabilities are ng, as Python reads the JSON.
ExpressionValue(expression, dom) ==
    IF expression = WaitForScript(FALSE) THEN (IF dom # "absent" THEN "True" ELSE "False")
    ELSE IF expression = WaitForScript(TRUE) THEN (IF dom = "visible" THEN "True" ELSE "False")
    ELSE IF expression = AngularScript THEN (IF ng # "unstable" THEN "True" ELSE "False")
    ELSE IF IsQueryScript(expression) THEN QueryValue(expression, dom)
    ELSE IF \E i \in Indexes : expression = ClickScript(i)
    THEN (IF \E i \in Indexes : expression = ClickScript(i) /\ i < Matches(dom)
          THEN "True" ELSE "False")
    ELSE IF expression = GetTextScript THEN (IF Matches(dom) > 0 THEN "'text'" ELSE "None")
    ELSE Missing

StartsWith(s, t) == Len(s) >= Len(t) /\ SubSeq(s, 1, Len(t)) = t

EndsWith(s, t) == Len(s) >= Len(t) /\ SubSeq(s, Len(s) - Len(t) + 1, Len(s)) = t

IsAsyncIife(e) == StartsWith(e, "(async () => { ") /\ EndsWith(e, " })()")

AsyncBody(e) == SubSeq(e, Len("(async () => { ") + 1, Len(e) - Len(" })()"))

\* x or default
Or(x, default) == IF Truthy(x) THEN x ELSE default

\* Runtime.evaluate of a request on such a page. An async function returns
\* what its return statement returns: a body that is an expression statement
\* yields undefined, which is serialized without a value. A promise that is
\* not awaited is serialized as an empty object.
JsEval(request, dom) ==
    IF IsAsyncIife(request.expression)
    THEN IF ~request.awaitPromise THEN [NoReply EXCEPT !.value = "{}"]
         ELSE IF StartsWith(AsyncBody(request.expression), "return ")
         THEN [NoReply EXCEPT !.value =
                   ExpressionValue(SubSeq(AsyncBody(request.expression), 8,
                                          Len(AsyncBody(request.expression))), dom)]
         ELSE NoReply
    ELSE [NoReply EXCEPT !.value = ExpressionValue(request.expression, dom)]

\* What Runtime.evaluate does with a poll: the transport fails, the script
\* raises in the page, or the page evaluates it.
PollOutcomes(request, dom) ==
    {[ok |-> FALSE, reply |-> NoReply],
     [ok |-> TRUE, reply |-> [NoReply EXCEPT !.exc = TRUE, !.text = "Uncaught"]],
     [ok |-> TRUE, reply |-> JsEval(request, dom)]}

\* What Runtime.evaluate does with the request of query: as with a poll, or the
\* session answers with a list of up to MaxMatches element records.
QueryOutcomes(request, dom, include_children, include_text) ==
    PollOutcomes(request, dom)
    \cup {[ok |-> TRUE,
           reply |-> [NoReply EXCEPT !.value = ElementList(n, include_children, include_text)]] :
              n \in 0 .. MaxMatches}

\* Line 149: query(selector, target, include_children, include_text), with the
\* environment's part as inputs.
query(include_children, include_text, target, env, ev) ==
    LET r == execute_js(QueryScript(include_children, include_text), target, TRUE, env, ev)
    IN  IF r.err = "none" THEN [r EXCEPT !.value = Or(r.value, "[]")] ELSE r

\* click(selector, target, index): line 184, what execute_js returns for the
\* script.
click(index, target, env, ev) == execute_js(ClickScript(index), target, TRUE, env, ev)

\* get_text(selector, target): line 194.
get_text(target, env, ev) == execute_js(GetTextScript, target, TRUE, env, ev)

\* query_with_retry: the flags and the target it was called with, max_retries,
\* the loop variable attempt and the number of query calls made.
NoRetry ==
    [pc |-> "idle", target |-> NoTarget, max_retries |-> 0, include_children |-> FALSE,
     include_text |-> TRUE, attempt |-> 0, calls |-> 0]

\* Line 164: range(max_retries) has another value.
InRangeInclusive(attempt, max_retries) == attempt <= max_retries

InRange(attempt, max_retries) == attempt < max_retries

NoWait ==
    [pc |-> "idle", target |-> NoTarget, timeout |-> 0, visible |-> FALSE,
     elapsed |-> 0, polls |-> 0]

\* time.time() - start after d more units; the loop reads it only to compare
\* it with timeout, so it is kept up to timeout.
Later(d) == IF wait.elapsed + d < wait.timeout THEN wait.elapsed + d ELSE wait.timeout

----------------------------------------------------------------------------
\* screenshot.

\* The keyword arguments of Page.captureScreenshot: format, and quality when
\* the dict has that key.
NoParams == [sent |-> FALSE, format |-> "", hasQuality |-> FALSE, quality |-> 0]

\* Lines 256-258 with the condition of line 257 dropped.
CaptureParamsWithQuality(format, quality) ==
    [sent |-> TRUE, format |-> format, hasQuality |-> TRUE, quality |-> quality]

\* Lines 256-258: params.
CaptureParams(format, quality) ==
    [sent |-> TRUE, format |-> format, hasQuality |-> format = "jpeg",
     quality |-> IF format = "jpeg" THEN quality ELSE 0]

\* What Page.captureScreenshot does: it raises, or returns a dict with or
\* without the key data.
NoCapture == [ok |-> TRUE, data |-> Missing]

CaptureOutcomes ==
    {[ok |-> FALSE, data |-> Missing], NoCapture, [ok |-> TRUE, data |-> "iVBORw0KGgo="]}

\* The arguments screenshot is called with.
NoArgs == [format |-> "", quality |-> 0]

Formats == {"png", "jpeg", "webp"}

Qualities == {0, 50, 80, 100}

\* screenshot(target, format, quality), with the environment's part as inputs:
\* env for get_tab and cap for Page.captureScreenshot.
screenshot(target, format, quality, env, cap) ==
    LET r == get_tab(target, env.netOk, env.gen, env.startOk)
        params == CaptureParams(format, quality)
        res == [err |-> r.err, value |-> "None", params |-> NoParams, capture |-> NoCapture,
                tab |-> r.tab, handle |-> r.handle, ws |-> r.ws,
                startCalled |-> r.startCalled, browser |-> r.browser,
                nBrowsers |-> r.nBrowsers, tabs |-> r.tabs, started |-> r.started]
    IN  IF r.err # "none" THEN res
        ELSE IF ~cap.ok
        THEN [res EXCEPT !.err = "TransportError", !.params = params, !.capture = cap]
        ELSE IF cap.data = Missing
        THEN [res EXCEPT !.err = "KeyError", !.params = params, !.capture = cap]
        ELSE [res EXCEPT !.value = cap.data, !.params = params, !.capture = cap]

----------------------------------------------------------------------------
\* disconnect.

\* A disconnect that does not clear the cache.
disconnectKeepsCache(failing) ==
    [err |-> "none", stopCalls |-> CacheValues, tabs |-> tabs, browser |-> 0,
     started |-> started \ CacheValues]

\* A loop without the try/except: a stop() that raises ends it, and the
\* exception leaves the cache and the browser handle as they were.
disconnectUnguarded(failing) ==
    IF failing # {}
    THEN [err |-> "StopError", stopCalls |-> CacheValues \ failing, tabs |-> tabs,
          browser |-> browser, started |-> started \ (CacheValues \ failing)]
    ELSE [err |-> "none", stopCalls |-> CacheValues, tabs |-> {}, browser |-> 0,
          started |-> started \ CacheValues]

\* disconnect(): stop() is called on every cached handle, an exception of stop()
\* is swallowed, then the cache is cleared and the browser handle dropped.
\* failing: the handles whose stop() raises. A handle is no longer running once
\* stop() was called on it, whether or not closing its socket raised.
disconnect(failing) ==
    [err |-> "none", stopCalls |-> CacheValues, tabs |-> {}, browser |-> 0,
     started |-> started \ CacheValues]

----------------------------------------------------------------------------
\* list_targets.

\* enumerate(targets): each raw entry with its 0-based position.
Enumerate(raw) == [i \in 1 .. Len(raw) |-> [index |-> i - 1, t |-> raw[i]]]

IsPageEntry(e) == IsPage(e.t)

\* The list comprehension of list_targets: the entries of type page, each with
\* the position enumerate gave it and its webSocketDebuggerUrl.
list_targets(raw) ==
    LET kept == SelectSeq(Enumerate(raw), IsPageEntry)
    IN  [k \in 1 .. Len(kept) |-> [index |-> kept[k].index, ws_url |-> kept[k].t.id]]

----------------------------------------------------------------------------
\* call_tool.

\* str(e) of the exceptions the connection layer raises; msg is the message of
\* a RuntimeError.
TargetText(target) ==
    IF target.int THEN ToString(target.v) ELSE "ws://localhost:9222/devtools/page/" \o ToString(target.v)

ErrorText(err, msg, target) ==
    CASE err = "ConnectionError" -> "No Tabby tabs found"
      [] err = "ValueError" -> "Target not found: " \o TargetText(target)
      [] err = "IndexError" -> "list index out of range"
      [] err = "RuntimeError" -> msg
      [] err = "KeyError" -> "'data'"
      [] OTHER -> "<" \o err \o ">"

\* json.dumps of a value execute_js or query returned: None, True and False
\* are written null, true and false; a number, an empty list and an empty
\* object are written as Python writes them.
JsonDumps(value) ==
    CASE value = "None" -> "null"
      [] value = "True" -> "true"
      [] value = "False" -> "false"
      [] OTHER -> value

\* What call_tool returns, or that it raised.
NoResponse == [kind |-> "none", text |-> ""]

TextContent(text) == [kind |-> "text", text |-> text]

ImageContent(data) == [kind |-> "image", text |-> data]

\* A handler without the try statement: the exception leaves call_tool.
Unhandled(err, msg, target, response) ==
    IF err = "none" THEN response ELSE [kind |-> "raised", text |-> err]

\* The try statement of each handler: the response of the try block, or of the
\* except clause when the connection layer raised err.
Handled(err, msg, target, response) ==
    IF err = "none" THEN response
    ELSE TextContent("Error: " \o ErrorText(err, msg, target))

\* name and target: the request; failed: the connection layer raised while it
\* was served; prevFailed: it did for the request before.
NoTool ==
    [pc |-> "idle", name |-> "", target |-> NoTarget, failed |-> FALSE,
     prevFailed |-> FALSE, response |-> NoResponse]

\* The request is served: what call_tool leaves.
Served(name, target, err, msg, response) ==
    [pc |-> "idle", name |-> name, target |-> target, failed |-> err # "none",
     prevFailed |-> tool.failed, response |-> Handled(err, msg, target, response)]

----------------------------------------------------------------------------
\* The event loop of asyncio.run: one thread, which runs one call_tool
\* coroutine at a time and changes to another only where the running one
\* awaits.

Tasks == 1 .. MaxTasks

\* pc: the statement the request is at; handle: the handle its specifier
\* resolved to; tab: what get_tab returned; err: the exception raised.
NoTask ==
    [pc |-> "idle", target |-> NoTarget, handle |-> NoTab, tab |-> NoTab, err |-> "none",
     startCalled |-> FALSE]

\* running: the task that holds the thread, 0 when the loop chooses;
\* connections: how many TabbyConnection objects get_connection created.
NoLoop == [running |-> 0, connections |-> 0, task |-> [t \in Tasks |-> NoTask]]

\* call_tool with an await before each call that reaches the network:
\* list_tab and start.
YieldsAtIO(pc) == pc \in {"list_tab", "start"}

\* Whether the coroutine gives up the thread before the statement at pc:
\* call_tool and the connection layer have no await.
Yields(pc) == FALSE

----------------------------------------------------------------------------
\* History.

NoLast ==
    [tick |-> 0, op |-> "init", target |-> NoTarget, err |-> "none", tab |-> NoTab,
     handle |-> NoTab, ws |-> 0, startCalled |-> FALSE, before |-> {}, stopCalls |-> {},
     stopFailed |-> FALSE, descs |-> <<>>, expression |-> "", wrap |-> FALSE,
     request |-> NoRequest, reply |-> NoReply, msg |-> "", value |-> "None",
     timeout |-> 0, elapsed |-> 0, polls |-> 0, args |-> NoArgs, params |-> NoParams,
     capture |-> NoCapture]

Flip(b) == 1 - b

\* The identities requests were sent to, after the execute_js call r: it sends
\* its request to the session get_tab returned.
Issue(r) == IF r.request.sent THEN issued \cup {r.ws} ELSE issued

\* The operation's outcome l becomes the history. Every operation flips tick,
\* so that no operation is a stuttering step.
Record(l) == last' = [l EXCEPT !.tick = Flip(last.tick)]

\* resolved: a get_tab call returned; startInvoked, startSucceeded: the
\* identities start() was called for, and succeeded for; oldBrowsers: the
\* Browser objects created before that disconnect(); stopped: it stopped
\* sessions.
NoEpoch == [resolved |-> FALSE, startInvoked |-> {}, startSucceeded |-> {},
            oldBrowsers |-> 0, stopped |-> FALSE]

----------------------------------------------------------------------------
Init ==
    /\ listing = <<>>
    /\ nextId = 1
    /\ browser = 0
    /\ nBrowsers = 0
    /\ tabs = {}
    /\ started = {}
    /\ epoch = NoEpoch
    /\ last = NoLast
    /\ page = "absent"
    /\ wait = NoWait
    /\ ng = "none"
    /\ issued = {}
    /\ retry = NoRetry
    /\ tool = NoTool
    /\ loop = NoLoop

\* The application opens a target: it appears somewhere in the listing.
InsertAt(s, p, x) == SubSeq(s, 1, p - 1) \o <<x>> \o SubSeq(s, p, Len(s))

RemoveAt(s, p) == SubSeq(s, 1, p - 1) \o SubSeq(s, p + 1, Len(s))

OpenTarget ==
    /\ nextId <= MaxIds
    /\ \E type \in TargetTypes, p \in 1 .. Len(listing) + 1 :
           listing' = InsertAt(listing, p, [id |-> nextId, type |-> type])
    /\ nextId' = nextId + 1
    /\ UNCHANGED <<browser, nBrowsers, tabs, started, epoch, page, wait, ng, issued, retry,
                   tool, loop>>
    /\ Record([NoLast EXCEPT !.op = "env"])

CloseTarget ==
    /\ \E p \in 1 .. Len(listing) : listing' = RemoveAt(listing, p)
    /\ UNCHANGED <<nextId, browser, nBrowsers, tabs, started, epoch, page, wait, ng, issued,
                   retry, tool, loop>>
    /\ Record([NoLast EXCEPT !.op = "env"])

\* The effect of an operation that resolved its target on the connection.
Connection(r) ==
    /\ browser' = r.browser
    /\ nBrowsers' = r.nBrowsers
    /\ tabs' = r.tabs
    /\ started' = r.started
    /\ epoch' = [epoch EXCEPT
           !.resolved = @ \/ r.tab # NoTab,
           !.startInvoked = IF r.startCalled THEN @ \cup {r.ws} ELSE @,
           !.startSucceeded = IF r.startCalled /\ r.tab # NoTab THEN @ \cup {r.ws} ELSE @]

\* What the environment contributes to one get_tab call: whether the listing
\* request succeeds, which handle objects list_tab hands out, and whether
\* start() of a new handle succeeds. Only the inputs the call reads are drawn:
\* a call that the listing request fails, or that does not resolve, reads
\* neither gen nor startOk, and one that finds its identity cached reads no
\* startOk. The handle objects of a page are numbered from the one that is
\* started: the handle a call starts is object 1 of its page, and a later
\* listing holds that object or another one.
ResolveEnvs(target) ==
    LET r == Resolve(list_tab(ensure_browser, 1), target)
    IN  {[netOk |-> FALSE, gen |-> 1, startOk |-> TRUE]}
        \cup IF r.err = "none" /\ NeedsStart(r.tab.ws)
             THEN {[netOk |-> TRUE, gen |-> 1, startOk |-> ok] : ok \in BOOLEAN}
             ELSE {[netOk |-> TRUE, gen |-> g, startOk |-> TRUE] : g \in 1 .. MaxGen}

GetTab ==
    \E target \in Targets : \E env \in ResolveEnvs(target) :
        \E r \in {get_tab(target, env.netOk, env.gen, env.startOk)} :
            /\ Connection(r)
            /\ UNCHANGED <<listing, nextId, page, wait, ng, issued, retry, tool, loop>>
            /\ Record([NoLast EXCEPT !.op = "get_tab", !.target = target, !.err = r.err,
                                     !.tab = r.tab, !.handle = r.handle, !.ws = r.ws,
                                     !.startCalled = r.startCalled])

\* disconnect(), with the set of cached handles whose stop() raises as input.
Disconnect ==
    \E failing \in SUBSET CacheValues :
        \E r \in {disconnect(failing)} :
            /\ browser = 0 \/ nBrowsers < MaxBrowsers
            /\ browser' = r.browser
            /\ tabs' = r.tabs
            /\ started' = r.started
            /\ epoch' = [NoEpoch EXCEPT !.oldBrowsers = nBrowsers,
                                        !.stopped = r.stopCalls # {}]
            /\ UNCHANGED <<listing, nextId, nBrowsers, page, wait, ng, issued, retry, tool,
                           loop>>
            /\ Record([NoLast EXCEPT !.op = "disconnect", !.err = r.err,
                                     !.before = CacheValues, !.stopCalls = r.stopCalls,
                                     !.stopFailed = failing # {}])

\* list_targets(), with the outcome of the HTTP request as input.
ListTargets ==
    \E netOk \in BOOLEAN :
        /\ UNCHANGED <<listing, nextId, browser, nBrowsers, tabs, started, epoch, page,
                       wait, ng, issued, retry, tool, loop>>
        /\ Record([NoLast EXCEPT !.op = "list_targets",
                                 !.err = IF netOk THEN "none" ELSE "TransportError",
                                 !.descs = IF netOk THEN list_targets(listing) ELSE <<>>])

\* The scripts and the specifiers the callers of execute_js pass.
Expressions == {"return 1+1", "throw new Error('x')"}

ExecTargets == {IntTarget(-1), IntTarget(0), StrTarget(0)}

\* Runtime.evaluate is reached only when get_tab returned.
EvalEnvs(target, env) ==
    IF get_tab(target, env.netOk, env.gen, env.startOk).err = "none"
    THEN EvalOutcomes ELSE {[ok |-> TRUE, reply |-> NoReply]}

ExecuteJs ==
    \E expression \in Expressions, target \in ExecTargets, wrap \in BOOLEAN :
        \E env \in ResolveEnvs(target) : \E ev \in EvalEnvs(target, env) :
            \E r \in {execute_js(expression, target, wrap, env, ev)} :
                /\ Connection(r)
                /\ UNCHANGED <<listing, nextId, page, wait, ng, issued, retry, tool, loop>>
                /\ Record([NoLast EXCEPT !.op = "execute_js", !.target = target,
                                         !.err = r.err, !.tab = r.tab,
                                         !.handle = r.handle, !.ws = r.ws,
                                         !.startCalled = r.startCalled,
                                         !.expression = expression, !.wrap = wrap,
                                         !.request = r.request, !.reply = r.reply,
                                         !.msg = r.msg, !.value = r.value])

\* The page's DOM changes.
DomChange ==
    /\ \E dom \in {"absent", "hidden", "visible"} : dom # page /\ page' = dom
    /\ UNCHANGED <<listing, nextId, browser, nBrowsers, tabs, started, epoch, last, wait,
                   ng, issued, retry, tool, loop>>

\* Time passes while a wait is in progress.
ClockTick ==
    /\ wait.pc # "idle"
    /\ wait.elapsed < wait.timeout
    /\ wait' = [wait EXCEPT !.elapsed = Later(1)]
    /\ UNCHANGED <<listing, nextId, browser, nBrowsers, tabs, started, epoch, last, page,
                   ng, issued, retry, tool, loop>>

\* Line 211: wait_for(selector, target, timeout, visible) is called.
WaitForBegin ==
    /\ wait.pc = "idle"
    /\ \E target \in ExecTargets, timeout \in 0 .. MaxTimeout, visible \in BOOLEAN :
           wait' = [NoWait EXCEPT !.pc = "loop", !.target = target, !.timeout = timeout,
                                  !.visible = visible]
    /\ issued' = {}
    /\ UNCHANGED <<listing, nextId, browser, nBrowsers, tabs, started, epoch, page, ng,
                   retry, tool, loop>>
    /\ Record([NoLast EXCEPT !.op = "wait_for_call"])

\* The outcome of a wait, as the history.
WaitOutcome(r, err, value) ==
    [NoLast EXCEPT !.op = "wait_for", !.target = wait.target, !.err = err,
                   !.value = value, !.tab = r.tab, !.handle = r.handle, !.ws = r.ws,
                   !.startCalled = r.startCalled, !.request = r.request,
                   !.reply = r.reply, !.msg = r.msg, !.timeout = wait.timeout,
                   !.elapsed = wait.elapsed, !.polls = wait.polls + 1]

\* Lines 212-225: the deadline has not passed, and one poll is made. An
\* exception of execute_js leaves wait_for; a true value returns True.
WaitForPoll ==
    /\ wait.pc = "loop"
    /\ wait.elapsed < wait.timeout
    /\ \E env \in ResolveEnvs(wait.target) :
       \E ev \in PollOutcomes(EvaluateRequest(WaitForScript(wait.visible), TRUE), page) :
       \E r \in {execute_js(WaitForScript(wait.visible), wait.target, TRUE, env, ev)} :
           /\ Connection(r)
           /\ issued' = Issue(r)
           /\ IF r.err # "none"
              THEN wait' = NoWait /\ Record(WaitOutcome(r, r.err, "None"))
              ELSE IF Truthy(r.value)
              THEN wait' = NoWait /\ Record(WaitOutcome(r, "none", "True"))
              ELSE /\ wait' = [wait EXCEPT !.pc = "sleep", !.polls = @ + 1]
                   /\ Record([WaitOutcome(r, "none", "None") EXCEPT !.op = "poll"])
    /\ UNCHANGED <<listing, nextId, page, ng, retry, tool, loop>>

\* Line 226: time.sleep(0.1)
WaitForSleep ==
    /\ wait.pc = "sleep"
    /\ wait' = [wait EXCEPT !.pc = "loop", !.elapsed = Later(SleepWaitFor)]
    /\ UNCHANGED <<listing, nextId, browser, nBrowsers, tabs, started, epoch, last, page,
                   ng, issued, retry, tool, loop>>

\* Lines 212, 227: the deadline has passed, wait_for returns False.
WaitForTimeout ==
    /\ wait.pc = "loop"
    /\ wait.elapsed >= wait.timeout
    /\ wait' = NoWait
    /\ UNCHANGED <<listing, nextId, browser, nBrowsers, tabs, started, epoch, page, ng,
                   issued, retry, tool, loop>>
    /\ Record([NoLast EXCEPT !.op = "wait_for", !.target = wait.target,
                             !.value = "False", !.timeout = wait.timeout,
                             !.elapsed = wait.elapsed, !.polls = wait.polls])

\* The page's testabilities change.
NgChange ==
    /\ \E hooks \in {"none", "stable", "unstable"} : hooks # ng /\ ng' = hooks
    /\ UNCHANGED <<listing, nextId, browser, nBrowsers, tabs, started, epoch, last, page,
                   wait, issued, retry, tool, loop>>

\* Line 242: wait_for_angular(target, timeout) is called.
AngularBegin ==
    /\ wait.pc = "idle"
    /\ \E target \in ExecTargets, timeout \in 0 .. MaxTimeout :
           wait' = [NoWait EXCEPT !.pc = "ng_loop", !.target = target, !.timeout = timeout]
    /\ issued' = {}
    /\ UNCHANGED <<listing, nextId, browser, nBrowsers, tabs, started, epoch, page, ng,
                   retry, tool, loop>>
    /\ Record([NoLast EXCEPT !.op = "wait_for_angular_call"])

\* Lines 244-248 without the try/except: an exception of the poll is raised.
PollAngularUnguarded(r) ==
    [raised |-> r.err # "none", stable |-> r.err = "none" /\ Truthy(r.value)]

\* Lines 244-248: what the try statement makes of the execute_js call r. An
\* exception is swallowed; a true value reports stability.
PollAngular(r) ==
    [raised |-> FALSE, stable |-> r.err = "none" /\ Truthy(r.value)]

\* The outcome of a wait_for_angular, or of one of its polls, as the history.
AngularOutcome(r, op, err, value) ==
    [NoLast EXCEPT !.op = op, !.target = wait.target, !.err = err, !.value = value,
                   !.tab = r.tab, !.handle = r.handle, !.ws = r.ws,
                   !.startCalled = r.startCalled, !.request = r.request,
                   !.reply = r.reply, !.msg = r.msg, !.timeout = wait.timeout,
                   !.elapsed = wait.elapsed, !.polls = wait.polls + 1]

\* Lines 243-248: the deadline has not passed, and one poll is made.
AngularPoll ==
    /\ wait.pc = "ng_loop"
    /\ wait.elapsed < wait.timeout
    /\ \E env \in ResolveEnvs(wait.target) :
       \E ev \in PollOutcomes(EvaluateRequest(AngularScript, TRUE), page) :
       \E r \in {execute_js(AngularScript, wait.target, TRUE, env, ev)} :
       \E p \in {PollAngular(r)} :
           /\ Connection(r)
           /\ issued' = Issue(r)
           /\ IF p.raised
              THEN wait' = NoWait /\ Record(AngularOutcome(r, "wait_for_angular", r.err, "None"))
              ELSE IF p.stable
              THEN wait' = NoWait /\ Record(AngularOutcome(r, "wait_for_angular", "none", "True"))
              ELSE /\ wait' = [wait EXCEPT !.pc = "ng_sleep", !.polls = @ + 1]
                   /\ Record(AngularOutcome(r, "ng_poll", r.err, "None"))
    /\ UNCHANGED <<listing, nextId, page, ng, retry, tool, loop>>

\* Line 249: time.sleep(0.05)
AngularSleep ==
    /\ wait.pc = "ng_sleep"
    /\ wait' = [wait EXCEPT !.pc = "ng_loop", !.elapsed = Later(SleepAngular)]
    /\ UNCHANGED <<listing, nextId, browser, nBrowsers, tabs, started, epoch, last, page,
                   ng, issued, retry, tool, loop>>

\* Lines 243, 250: the deadline has passed, wait_for_angular returns True.
AngularTimeout ==
    /\ wait.pc = "ng_loop"
    /\ wait.elapsed >= wait.timeout
    /\ wait' = NoWait
    /\ UNCHANGED <<listing, nextId, browser, nBrowsers, tabs, started, epoch, page, ng,
                   issued, retry, tool, loop>>
    /\ Record([NoLast EXCEPT !.op = "wait_for_angular", !.target = wait.target,
                             !.value = "True", !.timeout = wait.timeout,
                             !.elapsed = wait.elapsed, !.polls = wait.polls])

\* query(selector, target, include_children, include_text) is called.
Query ==
    \E include_children \in BOOLEAN, include_text \in BOOLEAN, target \in ExecTargets :
    \E env \in ResolveEnvs(target) :
    \E ev \in QueryOutcomes(EvaluateRequest(QueryScript(include_children, include_text), TRUE),
                            page, include_children, include_text) :
    \E r \in {query(include_children, include_text, target, env, ev)} :
        /\ Connection(r)
        /\ UNCHANGED <<listing, nextId, page, wait, ng, issued, retry, tool, loop>>
        /\ Record([NoLast EXCEPT !.op = "query", !.target = target, !.err = r.err,
                                 !.tab = r.tab, !.handle = r.handle, !.ws = r.ws,
                                 !.startCalled = r.startCalled, !.request = r.request,
                                 !.reply = r.reply, !.msg = r.msg, !.value = r.value])

\* click(selector, target, index) is called.
Click ==
    \E index \in Indexes, target \in ExecTargets :
    \E env \in ResolveEnvs(target) :
    \E ev \in PollOutcomes(EvaluateRequest(ClickScript(index), TRUE), page) :
    \E r \in {click(index, target, env, ev)} :
        /\ Connection(r)
        /\ UNCHANGED <<listing, nextId, page, wait, ng, issued, retry, tool, loop>>
        /\ Record([NoLast EXCEPT !.op = "click", !.target = target, !.err = r.err,
                                 !.tab = r.tab, !.handle = r.handle, !.ws = r.ws,
                                 !.startCalled = r.startCalled, !.request = r.request,
                                 !.reply = r.reply, !.msg = r.msg, !.value = r.value])

\* get_text(selector, target) is called.
GetText ==
    \E target \in ExecTargets :
    \E env \in ResolveEnvs(target) :
    \E ev \in PollOutcomes(EvaluateRequest(GetTextScript, TRUE), page) :
    \E r \in {get_text(target, env, ev)} :
        /\ Connection(r)
        /\ UNCHANGED <<listing, nextId, page, wait, ng, issued, retry, tool, loop>>
        /\ Record([NoLast EXCEPT !.op = "get_text", !.target = target, !.err = r.err,
                                 !.tab = r.tab, !.handle = r.handle, !.ws = r.ws,
                                 !.startCalled = r.startCalled, !.request = r.request,
                                 !.reply = r.reply, !.msg = r.msg, !.value = r.value])

\* query_with_retry(selector, target, max_retries, retry_delay, include_children,
\* include_text) is called.
RetryBegin ==
    /\ retry.pc = "idle"
    /\ \E target \in ExecTargets, max_retries \in 0 .. MaxRetries :
           retry' = [NoRetry EXCEPT !.pc = "loop", !.target = target,
                                    !.max_retries = max_retries]
    /\ UNCHANGED <<listing, nextId, browser, nBrowsers, tabs, started, epoch, page, wait,
                   ng, issued, tool, loop>>
    /\ Record([NoLast EXCEPT !.op = "query_with_retry_call"])

\* The outcome of a query_with_retry, or of one of its attempts, as the history.
RetryOutcome(r, op, value) ==
    [NoLast EXCEPT !.op = op, !.target = retry.target, !.err = r.err, !.value = value,
                   !.tab = r.tab, !.handle = r.handle, !.ws = r.ws,
                   !.startCalled = r.startCalled, !.request = r.request,
                   !.reply = r.reply, !.msg = r.msg, !.polls = retry.calls + 1]

\* Lines 164-168: one pass of the loop up to the sleep. An exception of query
\* leaves query_with_retry, a non-empty result is returned.
RetryAttempt ==
    /\ retry.pc = "loop"
    /\ InRange(retry.attempt, retry.max_retries)
    /\ \E env \in ResolveEnvs(retry.target) :
       \E ev \in QueryOutcomes(EvaluateRequest(QueryScript(retry.include_children,
                                                            retry.include_text), TRUE),
                               page, retry.include_children, retry.include_text) :
       \E r \in {query(retry.include_children, retry.include_text, retry.target, env, ev)} :
           /\ Connection(r)
           /\ IF r.err # "none"
              THEN /\ retry' = [retry EXCEPT !.pc = "idle", !.calls = @ + 1]
                   /\ Record(RetryOutcome(r, "query_with_retry", "None"))
              ELSE IF Truthy(r.value)
              THEN /\ retry' = [retry EXCEPT !.pc = "idle", !.calls = @ + 1]
                   /\ Record(RetryOutcome(r, "query_with_retry", r.value))
              ELSE /\ retry' = [retry EXCEPT
                                    !.pc = IF retry.attempt < retry.max_retries - 1
                                           THEN "sleep" ELSE "next",
                                    !.calls = @ + 1]
                   /\ Record(RetryOutcome(r, "attempt", r.value))
    /\ UNCHANGED <<listing, nextId, page, wait, ng, issued, tool, loop>>

\* Lines 168-169 and 164: time.sleep(retry_delay) unless the attempt was the last
\* one, then the loop variable takes its next value.
RetrySleep ==
    /\ retry.pc \in {"sleep", "next"}
    /\ retry' = [retry EXCEPT !.pc = "loop", !.attempt = @ + 1]
    /\ UNCHANGED <<listing, nextId, browser, nBrowsers, tabs, started, epoch, last, page,
                   wait, ng, issued, tool, loop>>

\* Lines 164, 170: the range is exhausted, query_with_retry returns [].
RetryExhausted ==
    /\ retry.pc = "loop"
    /\ ~InRange(retry.attempt, retry.max_retries)
    /\ retry' = [retry EXCEPT !.pc = "idle"]
    /\ UNCHANGED <<listing, nextId, browser, nBrowsers, tabs, started, epoch, page, wait,
                   ng, issued, tool, loop>>
    /\ Record([NoLast EXCEPT !.op = "query_with_retry", !.target = retry.target,
                             !.value = "[]", !.polls = retry.calls])

\* Page.captureScreenshot is reached only when get_tab returned.
CaptureEnvs(target, env) ==
    IF get_tab(target, env.netOk, env.gen, env.startOk).err = "none"
    THEN CaptureOutcomes ELSE {NoCapture}

\* screenshot(target, format, quality) is called.
Screenshot ==
    \E target \in ExecTargets, format \in Formats, quality \in Qualities :
    \E env \in ResolveEnvs(target) : \E cap \in CaptureEnvs(target, env) :
    \E r \in {screenshot(target, format, quality, env, cap)} :
        /\ Connection(r)
        /\ UNCHANGED <<listing, nextId, page, wait, ng, issued, retry, tool, loop>>
        /\ Record([NoLast EXCEPT !.op = "screenshot", !.target = target, !.err = r.err,
                                 !.tab = r.tab, !.handle = r.handle, !.ws = r.ws,
                                 !.startCalled = r.startCalled, !.value = r.value,
                                 !.args = [format |-> format, quality |-> quality],
                                 !.params = r.params, !.capture = r.capture])

\* The task t goes on to the statement of next.pc, and keeps the thread unless
\* it has returned or yields there.
Advance(t, next) ==
    loop' = [loop EXCEPT !.task[t] = next,
                         !.running = IF next.pc = "done" \/ Yields(next.pc) THEN 0 ELSE t]

\* A request arrives: a call_tool coroutine is created for it.
TaskArrive(t) ==
    /\ loop.task[t].pc \in {"idle", "done"}
    /\ \E target \in ExecTargets :
           loop' = [loop EXCEPT !.task[t] = [NoTask EXCEPT !.pc = "ready", !.target = target]]
    /\ UNCHANGED <<listing, nextId, browser, nBrowsers, tabs, started, epoch, last, page,
                   wait, ng, issued, retry, tool>>

\* The loop gives the thread to a task that waits for it.
TaskRun(t) ==
    /\ loop.running = 0
    /\ loop.task[t].pc \notin {"idle", "done"}
    /\ loop' = [loop EXCEPT !.running = t]
    /\ UNCHANGED <<listing, nextId, browser, nBrowsers, tabs, started, epoch, last, page,
                   wait, ng, issued, retry, tool>>

\* tools.py line 114, cdp.py line 270: if _connection is None
TaskGetConnection(t) ==
    /\ loop.running = t
    /\ loop.task[t].pc = "ready"
    /\ Advance(t, [loop.task[t] EXCEPT !.pc = IF loop.connections = 0
                                              THEN "create_connection"
                                              ELSE "ensure_browser"])
    /\ UNCHANGED <<listing, nextId, browser, nBrowsers, tabs, started, epoch, last, page,
                   wait, ng, issued, retry, tool>>

\* cdp.py line 271: _connection = TabbyConnection(port)
TaskCreateConnection(t) ==
    /\ loop.running = t
    /\ loop.task[t].pc = "create_connection"
    /\ \E next \in {[loop.task[t] EXCEPT !.pc = "ensure_browser"]} :
           loop' = [loop EXCEPT !.task[t] = next,
                                !.connections = @ + 1,
                                !.running = IF Yields(next.pc) THEN 0 ELSE t]
    /\ UNCHANGED <<listing, nextId, browser, nBrowsers, tabs, started, epoch, last, page,
                   wait, ng, issued, retry, tool>>

\* Line 24: if self.browser is None
TaskEnsureBrowser(t) ==
    /\ loop.running = t
    /\ loop.task[t].pc = "ensure_browser"
    /\ Advance(t, [loop.task[t] EXCEPT !.pc = IF browser = 0 THEN "create_browser"
                                              ELSE "list_tab"])
    /\ UNCHANGED <<listing, nextId, browser, nBrowsers, tabs, started, epoch, last, page,
                   wait, ng, issued, retry, tool>>

\* Line 25: self.browser = pychrome.Browser(url=...)
TaskCreateBrowser(t) ==
    /\ loop.running = t
    /\ loop.task[t].pc = "create_browser"
    /\ browser' = nBrowsers + 1
    /\ nBrowsers' = nBrowsers + 1
    /\ Advance(t, [loop.task[t] EXCEPT !.pc = "list_tab"])
    /\ UNCHANGED <<listing, nextId, tabs, started, epoch, last, page, wait, ng, issued,
                   retry, tool>>

\* Lines 46-62: list_tab and the resolution of the specifier.
TaskListTab(t) ==
    /\ loop.running = t
    /\ loop.task[t].pc = "list_tab"
    /\ \E netOk \in BOOLEAN, gen \in 1 .. MaxGen :
       \E r \in {Resolve(list_tab(browser, gen), loop.task[t].target)} :
           Advance(t, IF ~netOk
                      THEN [loop.task[t] EXCEPT !.pc = "done", !.err = "TransportError"]
                      ELSE IF r.err # "none"
                      THEN [loop.task[t] EXCEPT !.pc = "done", !.err = r.err]
                      ELSE [loop.task[t] EXCEPT !.pc = "check", !.handle = r.tab])
    /\ UNCHANGED <<listing, nextId, browser, nBrowsers, tabs, started, epoch, last, page,
                   wait, ng, issued, retry, tool>>

\* Line 66: if ws_url not in self._tabs
TaskCheckCache(t) ==
    /\ loop.running = t
    /\ loop.task[t].pc = "check"
    /\ Advance(t, [loop.task[t] EXCEPT !.pc = IF NeedsStart(loop.task[t].handle.ws)
                                              THEN "start" ELSE "return"])
    /\ UNCHANGED <<listing, nextId, browser, nBrowsers, tabs, started, epoch, last, page,
                   wait, ng, issued, retry, tool>>

\* Line 67: tab.start()
TaskStart(t) ==
    /\ loop.running = t
    /\ loop.task[t].pc = "start"
    /\ \E startOk \in BOOLEAN :
           /\ started' = IF startOk THEN started \cup {loop.task[t].handle} ELSE started
           /\ Advance(t, IF startOk
                         THEN [loop.task[t] EXCEPT !.pc = "store", !.startCalled = TRUE]
                         ELSE [loop.task[t] EXCEPT !.pc = "done", !.startCalled = TRUE,
                                                   !.err = "StartError"])
    /\ UNCHANGED <<listing, nextId, browser, nBrowsers, tabs, epoch, last, page, wait, ng,
                   issued, retry, tool>>

\* Line 68: self._tabs[ws_url] = tab
TaskStore(t) ==
    /\ loop.running = t
    /\ loop.task[t].pc = "store"
    /\ tabs' = CachePut(loop.task[t].handle.ws, loop.task[t].handle)
    /\ Advance(t, [loop.task[t] EXCEPT !.pc = "return"])
    /\ UNCHANGED <<listing, nextId, browser, nBrowsers, started, epoch, last, page, wait,
                   ng, issued, retry, tool>>

\* Line 70: return self._tabs[ws_url]; the handler finishes with that session.
TaskReturn(t) ==
    /\ loop.running = t
    /\ loop.task[t].pc = "return"
    /\ Advance(t, [loop.task[t] EXCEPT
                       !.pc = "done",
                       !.tab = Returned(loop.task[t].handle.ws, loop.task[t].handle)])
    /\ UNCHANGED <<listing, nextId, browser, nBrowsers, tabs, started, epoch, last, page,
                   wait, ng, issued, retry, tool>>

\* Lines 116-122: the tool list_targets.
ToolListTargets ==
    /\ tool.pc = "idle"
    /\ \E netOk \in BOOLEAN :
           /\ tool' = Served("list_targets", NoTarget,
                             IF netOk THEN "none" ELSE "TransportError", "",
                             TextContent("<json>"))
           /\ Record([NoLast EXCEPT !.op = "list_targets",
                                    !.err = IF netOk THEN "none" ELSE "TransportError",
                                    !.descs = IF netOk THEN list_targets(listing) ELSE <<>>])
    /\ UNCHANGED <<listing, nextId, browser, nBrowsers, tabs, started, epoch, page, wait,
                   ng, issued, retry, loop>>

\* Lines 124-133: the tool execute_js.
ToolExecuteJs ==
    /\ tool.pc = "idle"
    /\ \E expression \in Expressions, target \in ExecTargets, wrap \in BOOLEAN :
       \E env \in ResolveEnvs(target) : \E ev \in EvalEnvs(target, env) :
       \E r \in {execute_js(expression, target, wrap, env, ev)} :
           /\ Connection(r)
           /\ tool' = Served("execute_js", target, r.err, r.msg,
                             TextContent(JsonDumps(r.value)))
           /\ Record([NoLast EXCEPT !.op = "execute_js", !.target = target,
                                    !.err = r.err, !.tab = r.tab,
                                    !.handle = r.handle, !.ws = r.ws,
                                    !.startCalled = r.startCalled,
                                    !.expression = expression, !.wrap = wrap,
                                    !.request = r.request, !.reply = r.reply,
                                    !.msg = r.msg, !.value = r.value])
    /\ UNCHANGED <<listing, nextId, page, wait, ng, issued, retry, loop>>

\* Lines 151-161: the tool screenshot.
ToolScreenshot ==
    /\ tool.pc = "idle"
    /\ \E target \in ExecTargets, format \in Formats, quality \in Qualities :
       \E env \in ResolveEnvs(target) : \E cap \in CaptureEnvs(target, env) :
       \E r \in {screenshot(target, format, quality, env, cap)} :
           /\ Connection(r)
           /\ tool' = Served("screenshot", target, r.err, "", ImageContent(r.value))
           /\ Record([NoLast EXCEPT !.op = "screenshot", !.target = target, !.err = r.err,
                                    !.tab = r.tab, !.handle = r.handle, !.ws = r.ws,
                                    !.startCalled = r.startCalled, !.value = r.value,
                                    !.args = [format |-> format, quality |-> quality],
                                    !.params = r.params, !.capture = r.capture])
    /\ UNCHANGED <<listing, nextId, page, wait, ng, issued, retry, loop>>

\* The query of line 145 and the response of the tool query.
ToolQueryCall(target) ==
    \E env \in ResolveEnvs(target) :
    \E ev \in PollOutcomes(EvaluateRequest(QueryScript(FALSE, TRUE), TRUE), page) :
    \E r \in {query(FALSE, TRUE, target, env, ev)} :
        /\ Connection(r)
        /\ issued' = Issue(r)
        /\ tool' = Served("query", target, r.err, r.msg, TextContent(JsonDumps(r.value)))
        /\ Record([NoLast EXCEPT !.op = "query", !.target = target, !.err = r.err,
                                 !.tab = r.tab, !.handle = r.handle, !.ws = r.ws,
                                 !.startCalled = r.startCalled, !.request = r.request,
                                 !.reply = r.reply, !.msg = r.msg, !.value = r.value])

\* Lines 135-149 with skip_wait: the tool query without its waits.
ToolQuerySkipWait ==
    /\ tool.pc = "idle"
    /\ \E target \in ExecTargets : ToolQueryCall(target)
    /\ UNCHANGED <<listing, nextId, page, wait, ng, retry, loop>>

\* Lines 135-143: the tool query calls wait_for_angular(target).
ToolQueryBegin ==
    /\ tool.pc = "idle"
    /\ wait.pc = "idle"
    /\ \E target \in ExecTargets :
           /\ tool' = [tool EXCEPT !.pc = "wait_for_angular", !.name = "query",
                                   !.target = target, !.response = NoResponse]
           /\ wait' = [NoWait EXCEPT !.pc = "ng_loop", !.target = target,
                                    !.timeout = AngularDefaultTimeout]
    /\ issued' = {}
    /\ UNCHANGED <<listing, nextId, browser, nBrowsers, tabs, started, epoch, page, ng,
                   retry, loop>>
    /\ Record([NoLast EXCEPT !.op = "wait_for_angular_call"])

\* Line 144: wait_for_angular returned, wait_for(selector, target, timeout=2.0)
\* is called.
ToolQueryWaitFor ==
    /\ tool.pc = "wait_for_angular"
    /\ wait.pc = "idle"
    /\ tool' = [tool EXCEPT !.pc = "wait_for"]
    /\ wait' = [NoWait EXCEPT !.pc = "loop", !.target = tool.target,
                             !.timeout = ToolWaitForTimeout]
    /\ UNCHANGED <<listing, nextId, browser, nBrowsers, tabs, started, epoch, page, ng,
                   issued, retry, loop>>
    /\ Record([NoLast EXCEPT !.op = "wait_for_call"])

\* Lines 145-149: wait_for returned or raised. Its exception is the error of
\* the tool; otherwise query is called.
ToolQueryFinish ==
    /\ tool.pc = "wait_for"
    /\ wait.pc = "idle"
    /\ IF last.err # "none"
       THEN /\ tool' = Served("query", tool.target, last.err, last.msg, NoResponse)
            /\ UNCHANGED <<browser, nBrowsers, tabs, started, epoch, issued>>
            /\ Record([NoLast EXCEPT !.op = "query_tool", !.target = tool.target,
                                     !.err = last.err, !.msg = last.msg])
       ELSE ToolQueryCall(tool.target)
    /\ UNCHANGED <<listing, nextId, page, wait, ng, retry, loop>>

Next ==
    \/ OpenTarget
    \/ CloseTarget
    \/ GetTab
    \/ Disconnect
    \/ ListTargets

Spec == Init /\ [][Next]_vars

\* The execution engine: execute_js called again and again on a connection,
\* against a listing of no target, of one page, or of a page after a target
\* that is no page.
ExecListings ==
    {<<>>,
     <<[id |-> 1, type |-> "page"]>>,
     <<[id |-> 1, type |-> "other"], [id |-> 2, type |-> "page"]>>}

InitExec ==
    /\ listing \in ExecListings
    /\ nextId = Len(listing) + 1
    /\ browser = 0
    /\ nBrowsers = 0
    /\ tabs = {}
    /\ started = {}
    /\ epoch = NoEpoch
    /\ last = NoLast
    /\ page = "absent"
    /\ wait = NoWait
    /\ ng = "none"
    /\ issued = {}
    /\ retry = NoRetry
    /\ tool = NoTool
    /\ loop = NoLoop

SpecExec == InitExec /\ [][ExecuteJs]_vars

\* The wait primitives: wait_for against pages that open, close and change.
NextWait ==
    \/ OpenTarget
    \/ CloseTarget
    \/ DomChange
    \/ ClockTick
    \/ WaitForBegin
    \/ WaitForPoll
    \/ WaitForSleep
    \/ WaitForTimeout

SpecWait == Init /\ [][NextWait]_vars

\* wait_for_angular against a listing of no target, of one page, or of a page
\* after a target that is no page, while the page's testabilities change.
NextAngular ==
    \/ NgChange
    \/ ClockTick
    \/ AngularBegin
    \/ AngularPoll
    \/ AngularSleep
    \/ AngularTimeout

SpecAngular == InitExec /\ [][NextAngular]_vars

\* query, click and get_text against such a listing, while the page changes.
NextQuery ==
    \/ DomChange
    \/ Query
    \/ Click
    \/ GetText

SpecQuery == InitExec /\ [][NextQuery]_vars

\* query_with_retry, with the default flags, against such a listing, while the
\* page changes.
NextRetry ==
    \/ DomChange
    \/ RetryBegin
    \/ RetryAttempt
    \/ RetrySleep
    \/ RetryExhausted

SpecRetry == InitExec /\ [][NextRetry]_vars

\* screenshot called again and again on a connection, against such a listing.
SpecShot == InitExec /\ [][Screenshot]_vars

\* The tools: call_tool serves one request after the other against such a
\* listing. The clock of the waits of the tool query advances with their sleeps
\* only: the round trips take no time on it.
NextTool ==
    \/ ToolListTargets
    \/ ToolExecuteJs
    \/ ToolScreenshot
    \/ ToolQuerySkipWait
    \/ ToolQueryBegin
    \/ AngularPoll
    \/ AngularSleep
    \/ AngularTimeout
    \/ ToolQueryWaitFor
    \/ WaitForPoll
    \/ WaitForSleep
    \/ WaitForTimeout
    \/ ToolQueryFinish

SpecTool == InitExec /\ [][NextTool]_vars

\* Concurrent requests: the event loop runs their get_tab calls statement by
\* statement against such a listing.
NextLoop ==
    \E t \in Tasks :
        \/ TaskArrive(t)
        \/ TaskRun(t)
        \/ TaskGetConnection(t)
        \/ TaskCreateConnection(t)
        \/ TaskEnsureBrowser(t)
        \/ TaskCreateBrowser(t)
        \/ TaskListTab(t)
        \/ TaskCheckCache(t)
        \/ TaskStart(t)
        \/ TaskStore(t)
        \/ TaskReturn(t)

SpecLoop == InitExec /\ [][NextLoop]_vars
----------------------------------------------------------------------------
\* Properties of the session cache and of the resolution.

\* The handles list_tab hands out for the current listing.
Handles == list_tab(ensure_browser, 1)

Resolved == last.op = "get_tab" /\ last.err = "none"

\* The cache holds one item per identity, each a started handle of that
\* identity, and no two started handles are of one identity.
OneSessionPerIdentity ==
    /\ \A e1, e2 \in tabs : e1.ws = e2.ws => e1 = e2
    /\ \A e \in tabs : e.tab.ws = e.ws /\ e.tab \in started
    /\ \A t1, t2 \in started : t1.ws = t2.ws => t1 = t2

\* A get_tab step that calls start() calls it for an identity it was not called
\* for since the last disconnect().
StartInvokedOnce ==
    (last'.op = "get_tab" /\ last'.startCalled) => last'.ws \notin epoch.startInvoked

\* A get_tab step that calls start() calls it for an identity that is not in the
\* cache and for which no start() succeeded since the last disconnect().
StartSucceedsOnce ==
    (last'.op = "get_tab" /\ last'.startCalled)
        => (last'.ws \notin epoch.startSucceeded /\ last'.ws \notin CacheKeys)

\* C1 as stated: the cache holds at most one started Session per identity, and
\* start() is invoked at most once per identity between two consecutive
\* disconnect() calls.
C1_Original == []OneSessionPerIdentity /\ [][StartInvokedOnce]_vars

\* C1, amended: the cache holds at most one started Session per identity, and
\* between two consecutive disconnect() calls start() succeeds at most once per
\* identity: it is invoked only for an identity that is not in the cache, so it
\* is invoked again only after an invocation that raised.
C1_OneSession == []OneSessionPerIdentity /\ [][StartSucceedsOnce]_vars

\* Two sessions are cached and a resolution returned one of them without start().
C1_Witness ==
    Resolved /\ ~last.startCalled /\ Cardinality(tabs) = 2 /\ last.ws \in epoch.startSucceeded

\* C2: of two successive get_tab calls that resolve the same identity, with
\* nothing in between, the second returns the object the first returned and
\* does not call start().
C2_SameSession ==
    [][(Resolved /\ last'.op = "get_tab" /\ last'.err = "none" /\ last'.ws = last.ws)
           => (last'.tab = last.tab /\ ~last'.startCalled)]_vars

\* A resolution returned the cached session although the listing held another
\* handle object for the identity.
C2_Witness == Resolved /\ ~last.startCalled /\ last.handle # last.tab

\* The two specifiers of the last handle of the current listing.
LastOrdinals == {IntTarget(-1), IntTarget(Len(Handles) - 1)}

\* C3: against a non-empty unchanged listing of n handles, get_tab(-1) and
\* get_tab(n - 1) resolve to the same handle, and of two successive calls, one
\* with -1 and one with n - 1, the second returns the Session the first returned.
C3_LastIsLengthMinusOne ==
    /\ [](Len(Handles) > 0
            => Resolve(Handles, IntTarget(-1)) = Resolve(Handles, IntTarget(Len(Handles) - 1)))
    /\ [][(Resolved /\ last'.op = "get_tab" /\ last'.err = "none"
             /\ last.target \in LastOrdinals /\ last'.target \in LastOrdinals)
            => last'.tab = last.tab]_vars

\* get_tab(-1) returned the cached session of the last of two or more pages.
C3_Witness ==
    /\ Resolved /\ last.target = IntTarget(-1) /\ ~last.startCalled
    /\ Len(Handles) >= 2 /\ last.ws = Handles[Len(Handles)].ws

\* C4: against a non-empty listing every specifier that does not resolve fails
\* with the error get_tab raises for "Target not found" (ValueError), an
\* ordinal out of range like a string that matches no handle, and against an
\* empty listing get_tab fails with ConnectionError.
C4_SameErrorKind ==
    (last.op = "get_tab" /\ last.err \notin {"none", "TransportError", "StartError"})
        => last.err = IF Len(Handles) = 0 THEN "ConnectionError" ELSE "ValueError"

\* C5: disconnect() calls stop() on every cached Session, does not raise, and
\* leaves the cache empty and the browser handle released, also when stop()
\* raises for some of them.
C5_DisconnectStopsAll ==
    last.op = "disconnect"
        => /\ last.err = "none"
           /\ last.stopCalls = last.before
           /\ last.before \cap started = {}
           /\ tabs = {}
           /\ browser = 0

\* A disconnect of two cached sessions during which a stop() raised.
C5_Witness == last.op = "disconnect" /\ last.stopFailed /\ Cardinality(last.before) = 2

\* C6: the first get_tab call that returns after a disconnect() uses a Browser
\* object created after that disconnect, calls start(), and leaves exactly the
\* resolved identity in the cache; and a Session get_tab returns is a handle of
\* the Browser object in use, never one created before the last disconnect().
C6_FreshAfterDisconnect ==
    /\ [](Resolved
            => /\ browser > epoch.oldBrowsers
               /\ last.tab.br = browser
               /\ last.tab \in started)
    /\ [][(last'.op = "get_tab" /\ last'.err = "none" /\ ~epoch.resolved)
            => /\ browser' > epoch.oldBrowsers
               /\ last'.startCalled
               /\ tabs' = {[ws |-> last'.ws, tab |-> last'.tab]}]_vars

\* The first resolution after a disconnect() that stopped sessions.
C6_Witness ==
    /\ Resolved /\ last.startCalled /\ epoch.stopped
    /\ Cardinality(tabs) = 1 /\ browser > 1

\* C7: list_targets returns the pages in listing order, their indices are
\* 0 .. k-1, and each index, used as an ordinal against the same listing,
\* resolves to the page it was reported for.
C7_IndexIsFilteredPosition ==
    (last.op = "list_targets" /\ last.err = "none")
        => /\ Len(last.descs) = Len(Handles)
           /\ \A k \in 1 .. Len(last.descs) :
                  /\ last.descs[k].ws_url = Handles[k].ws
                  /\ last.descs[k].index = k - 1
                  /\ Resolve(Handles, IntTarget(last.descs[k].index)).tab.ws
                         = last.descs[k].ws_url
----------------------------------------------------------------------------
\* Properties of execute_js.

Contains(s, t) == \E i \in 1 .. Len(s) - Len(t) + 1 : SubSeq(s, i, i + Len(t) - 1) = t

Evaluated == last.op = "execute_js" /\ last.request.sent /\ last.err # "TransportError"

\* C8: when Runtime.evaluate returned, execute_js raises RuntimeError exactly
\* when the reply has exceptionDetails; the message is "<text>: <description>"
\* when a non-empty description is reported and "<text>" otherwise, and holds
\* the reported text; without exceptionDetails it returns result.value, None
\* when there is none.
C8_ScriptError ==
    Evaluated
        => /\ (last.err = "RuntimeError") = last.reply.exc
           /\ last.err \in {"RuntimeError", "none"}
           /\ last.reply.exc =>
                  LET text == IF last.reply.text = Missing THEN "Unknown error"
                              ELSE last.reply.text
                  IN  /\ last.msg = IF last.reply.description \in {Missing, ""}
                                    THEN text
                                    ELSE text \o ": " \o last.reply.description
                      /\ Contains(last.msg, text)
           /\ ~last.reply.exc =>
                  last.value = IF last.reply.value = Missing THEN "None"
                               ELSE last.reply.value

\* A script error whose description is empty: the message is the text alone.
C8_Witness ==
    /\ Evaluated /\ last.err = "RuntimeError"
    /\ last.reply.description = "" /\ last.msg = "Uncaught"

\* A reply without exceptionDetails and without a value: None is returned.
C8_ValueWitness == Evaluated /\ last.err = "none" /\ last.reply.value = Missing

\* C9: every request execute_js sends has returnByValue true and awaitPromise
\* equal to wrap; with wrap the expression sent is the caller's inside an
\* immediately invoked async function, without it the caller's expression.
C9_Request ==
    (last.op = "execute_js" /\ last.request.sent)
        => /\ last.request.returnByValue
           /\ last.request.awaitPromise = last.wrap
           /\ last.wrap =>
                  last.request.expression = "(async () => { " \o last.expression \o " })()"
           /\ ~last.wrap => last.request.expression = last.expression

\* A request sent without wrap.
C9_Witness ==
    /\ last.op = "execute_js" /\ last.request.sent /\ ~last.wrap
    /\ last.request.expression = "return 1+1"
----------------------------------------------------------------------------
\* Properties of the waits.

\* C10: wait_for ends only by returning True after a poll whose value was true,
\* or False once the deadline has passed: no exception of a poll leaves it.
C10_PollFaultsAbsorbed ==
    last.op = "wait_for"
        => /\ last.err = "none"
           /\ \/ last.value = "True" /\ Truthy(Get(last.reply.value, "None"))
              \/ last.value = "False" /\ last.elapsed >= last.timeout

\* What the code does instead: wait_for ends by the exception of a poll, before
\* the deadline.
C10_AbortWitness ==
    /\ last.op = "wait_for" /\ last.err = "RuntimeError"
    /\ last.polls = 2 /\ last.elapsed < last.timeout

\* C11: wait_for returns only True or False, False only once the deadline has
\* passed, and a poll that finds the selector matching (with visible, matching
\* and rendered) and returns without a fault ends the wait with True.
C11_TrueAtFirstMatch ==
    /\ []((last.op = "wait_for" /\ last.err = "none")
            => /\ last.value \in {"True", "False"}
               /\ last.value = "False" => last.elapsed >= last.timeout)
    /\ [][(/\ last'.tick # last.tick
           /\ last'.op \in {"poll", "wait_for"}
           /\ last'.polls = wait.polls + 1
           /\ last'.err = "none"
           /\ ExpressionValue(WaitForScript(wait.visible), page) = "True")
            => (last'.op = "wait_for" /\ last'.value = "True")]_vars

\* C12: wait_for_angular ends only by returning True, after a poll that reported
\* stability or once the deadline has passed: it never returns False and never
\* raises, and a poll that raised leaves the wait in progress.
C12_AlwaysTrue ==
    /\ (last.op = "wait_for_angular") => (last.err = "none" /\ last.value = "True")
    /\ (last.op = "ng_poll") => wait.pc \in {"ng_sleep", "ng_loop"}

\* wait_for_angular returned True once the deadline had passed, after two or more
\* polls none of which reported stability.
C12_Witness ==
    /\ last.op = "wait_for_angular" /\ last.value = "True"
    /\ last.polls >= 2 /\ last.elapsed >= last.timeout

\* The script of a poll raised in the page, and the wait goes on.
C12_FaultWitness ==
    last.op = "ng_poll" /\ last.err = "RuntimeError" /\ wait.pc = "ng_sleep" /\ wait.polls = 2

\* C13: a poll of wait_for_angular that returns without a fault from a page with
\* no testabilities, or whose testabilities are all stable, ends the wait with
\* True at once: no sleep and no further poll follow it.
C13_StablePollReturns ==
    [][(/\ last'.tick # last.tick
        /\ last'.op \in {"ng_poll", "wait_for_angular"}
        /\ last'.polls = wait.polls + 1
        /\ last'.err = "none"
        /\ ng \in {"none", "stable"})
         => (last'.op = "wait_for_angular" /\ last'.value = "True")]_vars

\* C14: a query that returns, and whose script the page evaluated, returns the
\* records of the elements of the page the selector matches, in order with the
\* indices 0 .. n-1, and hence the empty list exactly when nothing matches.
C14_QueryReturnsMatches ==
    [][(/\ last'.tick # last.tick
        /\ last'.op = "query"
        /\ last'.err = "none"
        /\ last'.reply = JsEval(last'.request, page))
         => /\ last'.value = ElementList(Matches(page), FALSE, TRUE)
                 \/ last'.value = ElementList(Matches(page), TRUE, TRUE)
                 \/ last'.value = ElementList(Matches(page), FALSE, FALSE)
                 \/ last'.value = ElementList(Matches(page), TRUE, FALSE)
            /\ (last'.value = "[]") = (Matches(page) = 0)]_vars

\* C15: query_with_retry calls query at most max_retries times; an attempt whose
\* query returns a non-empty result ends it with that result; it returns the
\* empty list only after max_retries calls, and a non-empty result after as many
\* calls as attempts were made.
C15_StopsAtFirstNonEmpty ==
    /\ [](retry.calls <= retry.max_retries)
    /\ []((last.op = "query_with_retry" /\ last.err = "none")
            => /\ retry.pc = "idle"
               /\ last.polls = retry.calls
               /\ last.value = "[]" => retry.calls = retry.max_retries
               /\ last.value # "[]" => (/\ retry.calls = retry.attempt + 1
                                       /\ last.value = ReturnValue(last.reply)))
    /\ [][(/\ last'.tick # last.tick
           /\ last'.op \in {"attempt", "query_with_retry"}
           /\ retry'.calls = retry.calls + 1
           /\ last'.err = "none"
           /\ Truthy(ReturnValue(last'.reply)))
            => (/\ last'.op = "query_with_retry"
                /\ last'.value = ReturnValue(last'.reply)
                /\ retry'.pc = "idle")]_vars

\* Two empty results, then one element: it is returned after exactly 3 calls.
C15_Witness ==
    /\ last.op = "query_with_retry" /\ last.err = "none"
    /\ last.value = ElementList(1, FALSE, TRUE)
    /\ retry.calls = 3 /\ retry.max_retries = 3

\* Every attempt was empty: the empty list is returned after max_retries calls.
C15_ExhaustedWitness ==
    /\ last.op = "query_with_retry" /\ last.value = "[]"
    /\ retry.calls = 3 /\ retry.max_retries = 3

\* C17: every capture call screenshot makes carries the format it was called
\* with, and quality exactly when the format is "jpeg", then the quality it was
\* called with; when the capture returns, screenshot returns its data field.
C17_QualityOnlyForJpeg ==
    (last.op = "screenshot" /\ last.params.sent)
        => /\ last.params.format = last.args.format
           /\ last.params.hasQuality = (last.args.format = "jpeg")
           /\ last.params.hasQuality => last.params.quality = last.args.quality
           /\ last.err = "none" => last.value = last.capture.data

\* A png captured with quality 50 supplied: the capture call had no quality.
C17_Witness ==
    /\ last.op = "screenshot" /\ last.err = "none"
    /\ last.args = [format |-> "png", quality |-> 50]
    /\ ~last.params.hasQuality /\ last.value = "iVBORw0KGgo="

\* A jpeg captured with quality 50: the capture call had quality 50.
C17_JpegWitness ==
    /\ last.op = "screenshot" /\ last.err = "none"
    /\ last.args = [format |-> "jpeg", quality |-> 50]
    /\ last.params.hasQuality /\ last.params.quality = 50

\* C20: a get_tab call that raises (no page listed, the specifier does not
\* resolve, the listing request or start() fails) leaves the cache and the
\* started sessions as they were; every cached Session is a started one; and
\* the next get_tab call that resolves the identity whose start() raised calls
\* start() again.
C20_FailureLeavesCache ==
    /\ [](\A e \in tabs : e.tab \in started)
    /\ [][(last'.tick # last.tick /\ last'.op = "get_tab" /\ last'.err # "none")
            => (tabs' = tabs /\ started' = started)]_vars
    /\ [][(/\ last.op = "get_tab" /\ last.err = "StartError"
           /\ last'.tick # last.tick /\ last'.op = "get_tab"
           /\ last'.ws = last.ws /\ last'.err \in {"none", "StartError"})
            => last'.startCalled]_vars

\* start() of a second page's handle raised: the cache still holds the first
\* page's session only.
C20_Witness ==
    /\ last.op = "get_tab" /\ last.err = "StartError"
    /\ Cardinality(tabs) = 1 /\ ~InCache(last.ws)

\* C19: all the requests one wait_for call sends go to the session of one page,
\* also when targets open and close while it polls.
C19_OneSessionPerCall == Cardinality(issued) <= 1

\* A request was served.
ToolServed == tool.pc = "idle" /\ tool.name # ""

\* A request for a page of the current listing can be served without an error.
CanSucceed ==
    \A target \in ExecTargets :
        Resolve(Handles, target).err = "none"
            => \E env \in ResolveEnvs(target), ev \in EvalOutcomes :
                   execute_js("return 1+1", target, TRUE, env, ev).err = "none"

\* C16: call_tool never raises: every request it serves ends with a response,
\* which is the text "Error: ..." exactly when the connection layer raised; at
\* all times, so after a failed request too, the cache holds one started
\* session per identity and a request for a listed page can succeed.
C16_ErrorsBecomeText ==
    /\ ToolServed
         => /\ tool.response.kind \in {"text", "image"}
            /\ tool.failed
                 = (tool.response.kind = "text" /\ StartsWith(tool.response.text, "Error: "))
    /\ OneSessionPerIdentity
    /\ CanSucceed

\* The request before failed, and this one found a page and was served.
C16_Witness ==
    /\ ToolServed /\ tool.prevFailed /\ ~tool.failed
    /\ tool.name = "execute_js" /\ last.ws # 0 /\ last.tab \in started

\* The tool query failed in its selector wait, after polls.
C16_QueryWitness ==
    /\ ToolServed /\ tool.name = "query" /\ tool.failed
    /\ last.op = "query_tool" /\ Cardinality(tabs) = 1

\* The task is past the check of line 66 for the identity ws and has not yet
\* stored its handle.
InCritical(t, ws) ==
    loop.task[t].pc \in {"start", "store"} /\ loop.task[t].handle.ws = ws

\* C18: requests served concurrently exclude each other on the cache and the
\* connection handle: never are two of them past the check 'identity not in
\* cache' for one identity, never are two sessions started for one identity, and
\* never is a second TabbyConnection or a second Browser created.
C18_MutualExclusion ==
    /\ \A t1, t2 \in Tasks, ws \in 1 .. MaxIds :
           InCritical(t1, ws) /\ InCritical(t2, ws) => t1 = t2
    /\ \A s1, s2 \in started : s1.ws = s2.ws => s1 = s2
    /\ loop.connections <= 1
    /\ nBrowsers <= 1

\* One request is between the check and the store for a page while another
\* request with a specifier of that page waits for the thread.
C18_Witness ==
    \E t1, t2 \in Tasks :
        /\ t1 # t2
        /\ InCritical(t1, loop.task[t1].handle.ws)
        /\ loop.task[t2].pc = "ready"
        /\ Resolve(list_tab(browser, 1), loop.task[t2].target).tab.ws = loop.task[t1].handle.ws

\* Two requests for one page are both served: one started the session, the
\* other was handed the cached one.
C18_ServedWitness ==
    \E t1, t2 \in Tasks :
        /\ loop.task[t1].pc = "done" /\ loop.task[t2].pc = "done"
        /\ loop.task[t1].tab # NoTab /\ loop.task[t1].tab = loop.task[t2].tab
        /\ loop.task[t1].startCalled /\ ~loop.task[t2].startCalled
====
